---- MODULE Spec2Model ----
(***************************************************************************)
(* Model of whatsapp_alarm.py: the keyword matcher, the snapshot reader,   *)
(* the conversation locator and main()'s monitoring loop.                  *)
(*                                                                         *)
(* Python strings are sequences of one-character strings, so that          *)
(* normalisation, trimming, substring tests and the message id are         *)
(* computed the way the code computes them.                                *)
(***************************************************************************)
EXTENDS Integers, Sequences, FiniteSets, TLC

(***************************************************************************)
(* Bounds of the model.                                                    *)
(***************************************************************************)
\* the largest number of message blocks one find_elements call returns
MaxBlocks == 2
\* the largest configured cfg.alarm_beeps
MaxBeeps == 2
\* the longest string given to normalize on its own
MaxStr == 4
\* the longest message text and the longest keyword given to keyword_hit
MaxText == 3
MaxKw == 2
\* the longest metadata and text facet of a block given to the id
MaxFacet == 2

(***************************************************************************)
(* Strings.                                                                *)
(***************************************************************************)
\* the characters \s matches and str.strip() removes
Whitespace == {" ", "\t"}

IsSpace(c) == c \in Whitespace

\* U+2102, DOUBLE-STRUCK CAPITAL C: str.isupper() is true of it and
\* str.lower() returns it unchanged, as of several hundred other characters
DoubleStruckC == "U+2102"

\* str.isupper(), one character
IsUpper(c) == c \in {"A", "B", "H", DoubleStruckC}

\* str.lower(), one character
LowerChar(c) ==
    CASE c = "A" -> "a"
      [] c = "B" -> "b"
      [] c = "H" -> "h"
      [] OTHER -> c

Lower(s) == [i \in 1..Len(s) |-> LowerChar(s[i])]

RECURSIVE LStrip(_)
LStrip(s) ==
    IF s = <<>> THEN <<>>
    ELSE IF IsSpace(Head(s)) THEN LStrip(Tail(s)) ELSE s

RECURSIVE RStrip(_)
RStrip(s) ==
    IF s = <<>> THEN <<>>
    ELSE IF IsSpace(s[Len(s)]) THEN RStrip(SubSeq(s, 1, Len(s) - 1)) ELSE s

\* str.strip()
Strip(s) == RStrip(LStrip(s))

\* re.sub(r"\s+", " ", text): every maximal run of whitespace becomes one space
RECURSIVE ReSubSpaces(_)
ReSubSpaces(s) ==
    IF s = <<>> THEN <<>>
    ELSE IF IsSpace(Head(s)) THEN <<" ">> \o ReSubSpaces(LStrip(Tail(s)))
    ELSE <<Head(s)>> \o ReSubSpaces(Tail(s))

\* r"\s" for r"\s+": each whitespace character becomes a space of its own
normalizeEach(text) ==
    Lower(Strip([i \in 1..Len(text) |-> IF IsSpace(text[i]) THEN " " ELSE text[i]]))

normalize(text) == Lower(Strip(ReSubSpaces(text)))

\* Python's `sub in s` on strings
In(sub, s) ==
    \E i \in 0..(Len(s) - Len(sub)) : SubSeq(s, i + 1, i + Len(sub)) = sub

\* s.split(sep, 1)[-1] when sep occurs in s: what follows the first occurrence
AfterFirst(s, sep) ==
    LET i == CHOOSE k \in 0..(Len(s) - Len(sep)) :
                 /\ SubSeq(s, k + 1, k + Len(sep)) = sep
                 /\ \A j \in 0..(k - 1) : SubSeq(s, j + 1, j + Len(sep)) # sep
    IN  SubSeq(s, i + Len(sep) + 1, Len(s))

\* s.split(sep, 1)[0] when sep occurs in s: what precedes the first occurrence
BeforeFirst(s, sep) ==
    LET i == CHOOSE k \in 0..(Len(s) - Len(sep)) :
                 /\ SubSeq(s, k + 1, k + Len(sep)) = sep
                 /\ \A j \in 0..(k - 1) : SubSeq(s, j + 1, j + Len(sep)) # sep
    IN  SubSeq(s, 1, i)

(***************************************************************************)
(* keyword_hit: Optional[str] is a record, hit = FALSE standing for None.  *)
(***************************************************************************)
None == [hit |-> FALSE, kw |-> <<>>]

Some(kw) == [hit |-> TRUE, kw |-> kw]

\* the loop keeps going after a hit: the last qualifying keyword wins
keyword_hitLast(text, kws) ==
    LET t == normalize(text)
        hits == {i \in 1..Len(kws) : In(normalize(kws[i]), t)}
    IN  IF hits = {} THEN None
        ELSE Some(kws[CHOOSE i \in hits : \A j \in hits : i >= j])

keyword_hit(text, kws) ==
    LET t == normalize(text)
        hits == {i \in 1..Len(kws) : In(normalize(kws[i]), t)}
    IN  IF hits = {} THEN None
        ELSE Some(kws[CHOOSE i \in hits : \A j \in hits : i <= j])

\* the truth value `if hit:` gives an Optional[str]: None and "" are false
Truthy(r) == r.hit /\ r.kw # <<>>

(***************************************************************************)
(* get_messages.  A block is one element find_elements returned:           *)
(* meta is its data-pre-plain-text attribute, text its visible text, and   *)
(* ok = FALSE is an element whose read raises (invalidated by a re-render).*)
(***************************************************************************)
SenderOf(meta) ==
    IF In(<<"]", " ">>, meta)
    THEN LET after == AfterFirst(meta, <<"]", " ">>)
         IN  IF In(<<":", " ">>, after)
             THEN Strip(BeforeFirst(after, <<":", " ">>))
             ELSE <<"U", "n", "k", "n", "o", "w", "n">>
    ELSE <<"U", "n", "k", "n", "o", "w", "n">>

MsgId(meta, text) == meta \o <<"|">> \o text

\* `if not text: continue` left out
ExtractBlockKeepsBlank(b) ==
    IF ~b.ok THEN <<>>
    ELSE LET meta == Strip(b.meta)
             text == Strip(b.text)
         IN  << [id |-> MsgId(meta, text), sender |-> SenderOf(meta), text |-> text] >>

\* the body of the for loop over one block: <<>> for a skipped block
ExtractBlock(b) ==
    IF ~b.ok THEN <<>>
    ELSE LET meta == Strip(b.meta)
             text == Strip(b.text)
         IN  IF text = <<>> THEN <<>>
             ELSE << [id |-> MsgId(meta, text), sender |-> SenderOf(meta), text |-> text] >>

\* `break` for `continue` in the except clause: a failed read ends the loop
RECURSIVE GetMessagesBreak(_)
GetMessagesBreak(blocks) ==
    IF blocks = <<>> THEN <<>>
    ELSE IF ~Head(blocks).ok THEN <<>>
    ELSE ExtractBlock(Head(blocks)) \o GetMessagesBreak(Tail(blocks))

RECURSIVE GetMessages(_)
GetMessages(blocks) ==
    IF blocks = <<>> THEN <<>>
    ELSE ExtractBlock(Head(blocks)) \o GetMessages(Tail(blocks))

(***************************************************************************)
(* Inputs: the blocks the page can show and the configurations.            *)
(***************************************************************************)
\* "[9] Al: ", the shape of data-pre-plain-text: "[time] Name: "
MetaAl == <<"[", "9", "]", " ", "A", "l", ":", " ">>
\* an attribute without the "] " marker
MetaX == <<"x">>

TextHi == <<"H", "i", " ">>
TextAB == <<"a", " ", "\t", "B">>
TextBlank == <<" ">>

BlockSet ==
    { [meta |-> MetaAl, text |-> TextHi, ok |-> TRUE],
      [meta |-> MetaX, text |-> TextAB, ok |-> TRUE],
      [meta |-> MetaAl, text |-> TextBlank, ok |-> TRUE],
      [meta |-> MetaAl, text |-> TextHi, ok |-> FALSE] }

\* what one find_elements call can return, in document order
Snapshots == UNION {[1..n -> BlockSet] : n \in 0..MaxBlocks}

KwHi == <<"h", "i">>
KwAB == <<"A", " ", " ", "b">>
KwEmpty == <<>>
KwBlank == <<" ">>

\* cfg.keywords: non-empty sequences of strings
KeywordLists ==
    { <<KwHi>>, <<KwAB, KwHi>>, <<KwEmpty>>, <<KwEmpty, KwHi>>, <<KwBlank>> }

Configs ==
    [keywords : KeywordLists, alarm_beeps : {0, MaxBeeps}, wav_path : BOOLEAN]

\* range(1, 6) of open_group_chat
MaxAttempts == 5

(***************************************************************************)
(* State.                                                                  *)
(***************************************************************************)
VARIABLES
    cfg,            \* the Config value
    pc,             \* where main() is
    attempt,        \* open_group_chat: the loop variable
    step,           \* open_group_chat: the step of the attempt in progress
    locLog,         \* open_group_chat: the except clause each failed attempt ended in
    locResult,      \* open_group_chat: "none", "ok" (returned) or "fatal" (raised)
    locCalls,       \* calls of open_group_chat
    chat,           \* open_group_chat: the attempt whose lookup bound `chat`, 0 unbound
    clicked,        \* open_group_chat: the value of `chat` clicked in this attempt, 0 none
    locTrace,       \* open_group_chat: the steps of this attempt that succeeded, in order
    seen_ids,       \* main's seen_ids
    new_items,      \* main's new_items
    idx,            \* position of the for loop over new_items
    cycleMsgs,      \* msgs of the poll cycle in progress
    seenAtStart,    \* seen_ids when new_items was computed
    cycleEmitted,   \* the message lines printed in this cycle, in order
    cycleAlarms,    \* positions of new_items for which play_alarm was called
    scrollFail,     \* scroll_chat_to_bottom's except clause was entered just now
    cycleBlocks,    \* the elements find_elements returned to the last get_messages call
    failedEarlier,  \* the ids elements would have had whose read raised in earlier calls
    seedObserved,   \* ids returned by the get_messages calls before the loop
    everRead,       \* get_messages was called
    beepsDone,      \* play_alarm: beeps sounded by the call in progress
    alarmBusy,      \* a play_alarm call is in progress
    wavPlaying,     \* a sound started by PlaySound(SND_ASYNC) is still playing
    wavResult,      \* PlaySound in the play_alarm call just made: "none", "started", "failed"
    stopCause,      \* what ended the try body
    closeCount,     \* calls of driver.quit()
    closeFailed,    \* driver.quit() raised an Exception
    raised,         \* main() ended with an exception propagating
    lateInterrupt,  \* a KeyboardInterrupt arrived in an except or finally clause
    arg,            \* the arguments of a function applied on its own
    res             \* and what it returned

locVars == <<attempt, step, locLog, locResult, locCalls, chat, clicked, locTrace>>
loopVars == <<seen_ids, new_items, idx>>
cycleVars == <<cycleMsgs, seenAtStart, cycleEmitted, cycleAlarms, scrollFail,
               cycleBlocks, failedEarlier>>
alarmVars == <<beepsDone, alarmBusy, wavPlaying, wavResult>>
exitVars == <<closeCount, closeFailed, raised, lateInterrupt>>
vars == <<cfg, pc, locVars, loopVars, cycleVars, seedObserved, everRead,
          alarmVars, stopCause, exitVars, arg, res>>

Ids(msgs) == {msgs[i].id : i \in 1..Len(msgs)}

\* the ids the elements of a snapshot whose read raises would have had
FailedIds(blocks) ==
    {MsgId(Strip(blocks[i].meta), Strip(blocks[i].text)) :
        i \in {j \in 1..Len(blocks) : ~blocks[j].ok}}

\* the state after driver = build_driver(cfg)
Init ==
    /\ cfg \in Configs
    /\ pc = "acquired"
    /\ attempt = 0
    /\ step = "none"
    /\ locLog = <<>>
    /\ locResult = "none"
    /\ locCalls = 0
    /\ chat = 0
    /\ clicked = 0
    /\ locTrace = <<>>
    /\ seen_ids = {}
    /\ new_items = <<>>
    /\ idx = 1
    /\ cycleMsgs = <<>>
    /\ seenAtStart = {}
    /\ cycleEmitted = <<>>
    /\ cycleAlarms = {}
    /\ scrollFail = FALSE
    /\ cycleBlocks = <<>>
    /\ failedEarlier = {}
    /\ seedObserved = {}
    /\ everRead = FALSE
    /\ beepsDone = 0
    /\ alarmBusy = FALSE
    /\ wavPlaying = FALSE
    /\ wavResult = "none"
    /\ stopCause = "none"
    /\ closeCount = 0
    /\ closeFailed = FALSE
    /\ raised = FALSE
    /\ lateInterrupt = FALSE
    /\ arg = [fn |-> "none"]
    /\ res = [fn |-> "none"]

(***************************************************************************)
(* main(): startup.                                                        *)
(***************************************************************************)
\* an exception leaves the try body for main's except clauses
Raise(cause) ==
    /\ pc' = "handler"
    /\ stopCause' = cause

\* the try body is left from the loop: what was recorded of its elements is dropped
ElementsGone ==
    /\ scrollFail' = FALSE
    /\ cycleBlocks' = <<>>
    /\ failedEarlier' = {}

\* control reaches the try statement
EnterTry ==
    /\ pc = "acquired"
    /\ pc' = "waitReady"
    /\ UNCHANGED <<cfg, arg, res, locVars, loopVars, cycleVars, seedObserved, everRead,
                   alarmVars, stopCause, exitVars>>

\* wait_for_whatsapp_ready and the pause after it, then the call of
\* open_group_chat; a TimeoutException of wait.until is not caught there
WaitReady ==
    /\ pc = "waitReady"
    /\ \E ready \in BOOLEAN :
          IF ready
          THEN /\ pc' = "locate"
               /\ locCalls' = locCalls + 1
               /\ attempt' = 1
               /\ step' = "search"
               /\ UNCHANGED <<locLog, locResult, chat, clicked, locTrace, stopCause>>
          ELSE /\ Raise("readyTimeout")
               /\ UNCHANGED locVars
    /\ UNCHANGED <<cfg, arg, res, loopVars, cycleVars, seedObserved, everRead, alarmVars, exitVars>>

(***************************************************************************)
(* open_group_chat.                                                        *)
(***************************************************************************)
\* an except clause of the attempt: the exception is logged, the pause follows
\* (`except StaleElementReferenceException` for r = "stale", else
\* `except Exception`)
LocFail(r) ==
    /\ pc' = "locPause"
    /\ locLog' = Append(locLog, IF r = "stale" THEN "stale" ELSE "other")
    /\ UNCHANGED <<attempt, step, locResult, locCalls, locTrace, stopCause>>

\* the step succeeded: on to the next statement of the try body
LocAdvance(next) ==
    /\ step' = next
    /\ locTrace' = Append(locTrace, step)
    /\ UNCHANGED <<pc, attempt, locLog, locResult, locCalls, stopCause>>

\* the search field: the aria-label selector, on TimeoutException the fallback
LocSearch ==
    /\ pc = "locate" /\ step = "search"
    /\ \E r \in {"primary", "fallback", "bothTimeout", "stale", "other"} :
          IF r \in {"primary", "fallback"} THEN LocAdvance("type") ELSE LocFail(r)
    /\ UNCHANGED <<chat, clicked>>
    /\ UNCHANGED <<cfg, arg, res, loopVars, cycleVars, seedObserved, everRead, alarmVars, exitVars>>

\* click, select all, delete, type the group name
LocType ==
    /\ pc = "locate" /\ step = "type"
    /\ \E r \in {"ok", "stale", "other"} :
          IF r = "ok" THEN LocAdvance("lookup") ELSE LocFail(r)
    /\ UNCHANGED <<chat, clicked>>
    /\ UNCHANGED <<cfg, arg, res, loopVars, cycleVars, seedObserved, everRead, alarmVars, exitVars>>

\* the handle of an earlier attempt is kept and clicked again
LocLookupCached ==
    /\ pc = "locate" /\ step = "lookup"
    /\ \E r \in {"ok", "timeout", "stale", "other"} :
          IF r = "ok" \/ chat # 0
          THEN LocAdvance("click") /\ chat' = (IF chat # 0 THEN chat ELSE attempt)
          ELSE LocFail(r) /\ UNCHANGED chat
    /\ UNCHANGED clicked
    /\ UNCHANGED <<cfg, arg, res, loopVars, cycleVars, seedObserved, everRead, alarmVars, exitVars>>

\* the two waits for the span titled with the group name; the second one's
\* result is bound to `chat`
LocLookup ==
    /\ pc = "locate" /\ step = "lookup"
    /\ \E r \in {"ok", "timeout", "stale", "other"} :
          IF r = "ok"
          THEN LocAdvance("click") /\ chat' = attempt
          ELSE LocFail(r) /\ UNCHANGED chat
    /\ UNCHANGED clicked
    /\ UNCHANGED <<cfg, arg, res, loopVars, cycleVars, seedObserved, everRead, alarmVars, exitVars>>

\* chat.click()
LocClick ==
    /\ pc = "locate" /\ step = "click"
    /\ \E r \in {"ok", "stale", "other"} :
          IF r = "ok"
          THEN LocAdvance("composer") /\ clicked' = chat
          ELSE LocFail(r) /\ UNCHANGED clicked
    /\ UNCHANGED chat
    /\ UNCHANGED <<cfg, arg, res, loopVars, cycleVars, seedObserved, everRead, alarmVars, exitVars>>

\* the wait for the composer; found, open_group_chat returns
LocComposer ==
    /\ pc = "locate" /\ step = "composer"
    /\ \E r \in {"ok", "timeout", "other"} :
          IF r = "ok"
          THEN /\ locResult' = "ok"
               /\ step' = "done"
               /\ pc' = "probe"
               /\ locTrace' = Append(locTrace, step)
               /\ UNCHANGED <<attempt, locLog, locCalls, stopCause>>
          ELSE LocFail(r)
    /\ UNCHANGED <<chat, clicked>>
    /\ UNCHANGED <<cfg, arg, res, loopVars, cycleVars, seedObserved, everRead, alarmVars, exitVars>>

\* a wrong loop bound: the last attempt is never made
LocPauseShort ==
    /\ pc = "locPause"
    /\ IF attempt < MaxAttempts - 1
       THEN /\ attempt' = attempt + 1
            /\ step' = "search"
            /\ pc' = "locate"
            /\ clicked' = 0
            /\ locTrace' = <<>>
            /\ UNCHANGED <<locLog, locResult, locCalls, chat, stopCause>>
       ELSE /\ locResult' = "fatal"
            /\ Raise("locator")
            /\ UNCHANGED <<attempt, step, locLog, locCalls, chat, clicked, locTrace>>
    /\ UNCHANGED <<cfg, arg, res, loopVars, cycleVars, seedObserved, everRead, alarmVars, exitVars>>

\* the exhausted locator returns instead of raising
LocPauseSwallow ==
    /\ pc = "locPause"
    /\ IF attempt < MaxAttempts
       THEN /\ attempt' = attempt + 1
            /\ step' = "search"
            /\ pc' = "locate"
            /\ clicked' = 0
            /\ locTrace' = <<>>
            /\ UNCHANGED <<locLog, locResult, locCalls, chat, stopCause>>
       ELSE /\ locResult' = "fatal"
            /\ pc' = "probe"
            /\ UNCHANGED <<attempt, step, locLog, locCalls, chat, clicked, locTrace, stopCause>>
    /\ UNCHANGED <<cfg, arg, res, loopVars, cycleVars, seedObserved, everRead, alarmVars, exitVars>>

\* the pause of the except clause and `continue`: the next attempt, or, the
\* range exhausted, the RuntimeError, which main does not retry
LocPause ==
    /\ pc = "locPause"
    /\ IF attempt < MaxAttempts
       THEN /\ attempt' = attempt + 1
            /\ step' = "search"
            /\ pc' = "locate"
            /\ clicked' = 0
            /\ locTrace' = <<>>
            /\ UNCHANGED <<locLog, locResult, locCalls, chat, stopCause>>
       ELSE /\ locResult' = "fatal"
            /\ Raise("locator")
            /\ UNCHANGED <<attempt, step, locLog, locCalls, chat, clicked, locTrace>>
    /\ UNCHANGED <<cfg, arg, res, loopVars, cycleVars, seedObserved, everRead, alarmVars, exitVars>>

\* probe_dom: the probes catch their errors, the title and URL reads do not;
\* the locals of open_group_chat, which has returned, are gone
Probe ==
    /\ pc = "probe"
    /\ \E ok \in BOOLEAN :
          IF ok THEN pc' = "seed1" /\ UNCHANGED stopCause ELSE Raise("probe")
    /\ attempt' = 0
    /\ step' = "none"
    /\ locLog' = <<>>
    /\ chat' = 0
    /\ clicked' = 0
    /\ locTrace' = <<>>
    /\ UNCHANGED <<cfg, arg, res, locResult, locCalls, loopVars, cycleVars, seedObserved, everRead,
                   alarmVars, exitVars>>

(***************************************************************************)
(* main(): seeding.                                                        *)
(***************************************************************************)
\* seen_ids = set() and the first loop over get_messages(driver); an error
\* of find_elements is outside get_messages' try and leaves main's try body
Seed1 ==
    /\ pc = "seed1"
    /\ everRead' = TRUE
    /\ \/ \E blocks \in Snapshots :
             /\ seen_ids' = Ids(GetMessages(blocks))
             /\ seedObserved' = seedObserved \cup Ids(GetMessages(blocks))
             /\ pc' = "seed2"
             /\ cycleBlocks' = blocks
             /\ UNCHANGED stopCause
       \/ /\ Raise("seedRead")
          /\ UNCHANGED <<seen_ids, seedObserved, cycleBlocks>>
    /\ UNCHANGED <<cfg, arg, res, locVars, new_items, idx, cycleMsgs, seenAtStart, cycleEmitted,
                   cycleAlarms, scrollFail, failedEarlier, alarmVars, exitVars>>

\* the second seen_ids = set() and the second loop over get_messages(driver)
Seed2 ==
    /\ pc = "seed2"
    /\ \/ \E blocks \in Snapshots :
             /\ seen_ids' = Ids(GetMessages(blocks))
             /\ seedObserved' = seedObserved \cup Ids(GetMessages(blocks))
             /\ pc' = "scroll"
             /\ cycleBlocks' = blocks
             /\ failedEarlier' = failedEarlier \cup FailedIds(cycleBlocks)
             /\ UNCHANGED stopCause
       \/ /\ Raise("seedRead")
          /\ seen_ids' = {}
          /\ UNCHANGED <<seedObserved, cycleBlocks, failedEarlier>>
    /\ UNCHANGED <<cfg, arg, res, locVars, new_items, idx, cycleMsgs, seenAtStart, cycleEmitted,
                   cycleAlarms, scrollFail, everRead, alarmVars, exitVars>>

(***************************************************************************)
(* main(): the polling loop.                                               *)
(***************************************************************************)
\* the calls of scroll_chat_to_bottom's try body: find_element, click,
\* send_keys(END), send_keys(CONTROL + END)
ScrollCalls == 4

\* the except clause re-raises instead of passing
ScrollRaises ==
    /\ pc = "scroll"
    /\ \E failAt \in 0..ScrollCalls :
          /\ scrollFail' = (failAt # 0)
          /\ IF failAt = 0 THEN pc' = "read" /\ UNCHANGED stopCause ELSE Raise("scroll")
    /\ UNCHANGED <<cfg, arg, res, locVars, loopVars, cycleMsgs, seenAtStart, cycleEmitted,
                   cycleAlarms, cycleBlocks, failedEarlier, seedObserved, everRead,
                   alarmVars, exitVars>>

\* scroll_chat_to_bottom: whichever of its calls fails, the except clause
\* passes (failAt = 0: none fails)
Scroll ==
    /\ pc = "scroll"
    /\ \E failAt \in 0..ScrollCalls :
          /\ scrollFail' = (failAt # 0)
          /\ pc' = "read"
    /\ UNCHANGED <<cfg, arg, res, locVars, loopVars, cycleMsgs, seenAtStart, cycleEmitted,
                   cycleAlarms, cycleBlocks, failedEarlier, seedObserved, everRead,
                   alarmVars, stopCause, exitVars>>

\* the first new message is lost
NewItemsTail(msgs, seen) ==
    LET all == SelectSeq(msgs, LAMBDA m : m.id \notin seen)
    IN  IF all = <<>> THEN <<>> ELSE Tail(all)

\* [(mid, s, t) for (mid, s, t) in msgs if mid not in seen_ids]
NewItems(msgs, seen) == SelectSeq(msgs, LAMBDA m : m.id \notin seen)

\* msgs = get_messages(driver) and the list comprehension; find_elements may
\* raise (a transient driver error, or the session is gone), outside any try
\* of get_messages
PollRead ==
    /\ pc = "read"
    /\ \/ \E blocks \in Snapshots :
             /\ cycleMsgs' = GetMessages(blocks)
             /\ seenAtStart' = seen_ids
             /\ new_items' = NewItems(GetMessages(blocks), seen_ids)
             /\ idx' = 1
             /\ cycleEmitted' = <<>>
             /\ cycleAlarms' = {}
             /\ pc' = "process"
             /\ scrollFail' = FALSE
             /\ cycleBlocks' = blocks
             /\ failedEarlier' = failedEarlier \cup FailedIds(cycleBlocks)
             /\ UNCHANGED stopCause
       \/ \E r \in {"pollEnumError", "pollEnumFatal"} :
             /\ Raise(r)
             /\ ElementsGone
             /\ UNCHANGED <<new_items, idx, cycleMsgs, seenAtStart, cycleEmitted, cycleAlarms>>
    /\ UNCHANGED <<cfg, arg, res, locVars, seen_ids, seedObserved, everRead, alarmVars, exitVars>>

\* one iteration of the for loop up to the decision on hit; blocking: the
\* loop waits for play_alarm to return
ProcessItemWith(blocking) ==
    /\ pc = "process"
    /\ idx <= Len(new_items)
    /\ LET m == new_items[idx]
           hit == keyword_hit(m.text, cfg.keywords)
       IN  /\ seen_ids' = seen_ids \cup {m.id}
           /\ wavResult' = "none"
           /\ cycleEmitted' = Append(cycleEmitted,
                  [id |-> m.id, sender |-> m.sender, text |-> m.text,
                   wasSeen |-> m.id \in seen_ids])
           /\ IF Truthy(hit)
              THEN /\ cycleAlarms' = cycleAlarms \cup {idx}
                   /\ alarmBusy' = TRUE
                   /\ beepsDone' = 0
                   /\ IF blocking
                      THEN pc' = "alarm" /\ UNCHANGED idx
                      ELSE idx' = idx + 1 /\ UNCHANGED pc
              ELSE /\ idx' = idx + 1
                   /\ UNCHANGED <<pc, cycleAlarms, alarmBusy, beepsDone>>
    /\ UNCHANGED <<cfg, arg, res, locVars, new_items, cycleMsgs, seenAtStart, scrollFail,
                   cycleBlocks, failedEarlier, seedObserved, everRead, wavPlaying,
                   stopCause, exitVars>>

\* play_alarm handed to a background thread
ProcessItemAsync == ProcessItemWith(FALSE)

\* seen_ids.add, the message line, keyword_hit, `if hit:` and the call of
\* play_alarm
ProcessItem == ProcessItemWith(TRUE)

\* winsound.Beep and the pause after it; Beep raises RuntimeError when the
\* tone cannot be played, which nothing catches before main
AlarmBeep ==
    /\ pc = "alarm"
    /\ beepsDone < cfg.alarm_beeps
    /\ \E ok \in BOOLEAN :
          IF ok
          THEN /\ beepsDone' = beepsDone + 1
               /\ UNCHANGED <<pc, alarmBusy, stopCause>>
          ELSE /\ Raise("beep")
               /\ alarmBusy' = FALSE
               /\ UNCHANGED beepsDone
    /\ UNCHANGED <<cfg, arg, res, locVars, loopVars, cycleVars, seedObserved, everRead,
                   wavPlaying, wavResult, exitVars>>

\* no try around PlaySound: its exception leaves play_alarm
AlarmReturnFatal ==
    /\ pc = "alarm"
    /\ beepsDone = cfg.alarm_beeps
    /\ IF cfg.wav_path
       THEN \E ok \in BOOLEAN :
               IF ok
               THEN /\ wavPlaying' = TRUE
                    /\ wavResult' = "started"
                    /\ alarmBusy' = FALSE
                    /\ idx' = idx + 1
                    /\ pc' = "process"
                    /\ UNCHANGED stopCause
               ELSE /\ wavResult' = "failed"
                    /\ Raise("wav")
                    /\ alarmBusy' = FALSE
                    /\ UNCHANGED <<wavPlaying, idx>>
       ELSE /\ alarmBusy' = FALSE
            /\ idx' = idx + 1
            /\ pc' = "process"
            /\ UNCHANGED <<wavPlaying, wavResult, stopCause>>
    /\ UNCHANGED <<cfg, arg, res, locVars, seen_ids, new_items, cycleVars, seedObserved,
                   everRead, beepsDone, exitVars>>

\* the end of play_alarm: with a wav_path, PlaySound starts the file and
\* returns at once (SND_ASYNC), an exception of it is logged; play_alarm
\* returns and the for loop goes on
AlarmReturn ==
    /\ pc = "alarm"
    /\ beepsDone = cfg.alarm_beeps
    /\ IF cfg.wav_path
       THEN \E ok \in BOOLEAN :
               /\ wavPlaying' = (ok \/ wavPlaying)
               /\ wavResult' = IF ok THEN "started" ELSE "failed"
       ELSE UNCHANGED <<wavPlaying, wavResult>>
    /\ alarmBusy' = FALSE
    /\ idx' = idx + 1
    /\ pc' = "process"
    /\ UNCHANGED <<cfg, arg, res, locVars, seen_ids, new_items, cycleVars, seedObserved,
                   everRead, beepsDone, stopCause, exitVars>>

\* the sound started by PlaySound ends by itself
WavEnds ==
    /\ wavPlaying
    /\ wavPlaying' = FALSE
    /\ UNCHANGED <<cfg, arg, res, pc, locVars, loopVars, cycleVars, seedObserved, everRead,
                   beepsDone, alarmBusy, wavResult, stopCause, exitVars>>

\* the for loop is exhausted
LoopDone ==
    /\ pc = "process"
    /\ idx > Len(new_items)
    /\ pc' = "sleep"
    /\ wavResult' = "none"
    /\ UNCHANGED <<cfg, arg, res, locVars, loopVars, cycleVars, seedObserved, everRead,
                   beepsDone, alarmBusy, wavPlaying, stopCause, exitVars>>

\* time.sleep(cfg.poll_seconds) and back to the top of while True: msgs and
\* new_items are dead until lines 263 and 266 assign them again, and the
\* records of the cycle are closed
Sleep ==
    /\ pc = "sleep"
    /\ pc' = "scroll"
    /\ new_items' = <<>>
    /\ idx' = 1
    /\ cycleMsgs' = <<>>
    /\ seenAtStart' = {}
    /\ cycleEmitted' = <<>>
    /\ cycleAlarms' = {}
    /\ cycleBlocks' = <<>>
    /\ failedEarlier' = failedEarlier \cup FailedIds(cycleBlocks)
    /\ beepsDone' = 0
    /\ UNCHANGED <<cfg, arg, res, locVars, seen_ids, scrollFail, seedObserved, everRead,
                   alarmBusy, wavPlaying, wavResult, stopCause, exitVars>>

(***************************************************************************)
(* main(): interrupt, except clauses, finally.                             *)
(***************************************************************************)
\* the positions inside the try body
GuardedPcs ==
    {"waitReady", "locate", "locPause", "probe", "seed1", "seed2",
     "scroll", "read", "process", "alarm", "sleep"}

\* open_group_chat's clauses catch BaseException: an interrupt during an
\* attempt is logged and the attempt retried
InterruptSwallowed ==
    /\ pc \in GuardedPcs
    /\ stopCause' = "interrupt"
    /\ IF pc = "locate"
       THEN /\ pc' = "locPause"
            /\ locLog' = Append(locLog, "other")
            /\ UNCHANGED <<attempt, step, locResult, locCalls, chat, clicked, locTrace>>
       ELSE /\ pc' = "handler"
            /\ UNCHANGED locVars
    /\ alarmBusy' = FALSE
    /\ ElementsGone
    /\ UNCHANGED <<cfg, arg, res, loopVars, cycleMsgs, seenAtStart, cycleEmitted,
                   cycleAlarms, seedObserved, everRead, beepsDone, wavPlaying, wavResult,
                   exitVars>>

\* KeyboardInterrupt inside the try body: no `except Exception` of
\* open_group_chat, scroll_chat_to_bottom, get_messages or play_alarm catches
\* it, main's `except KeyboardInterrupt` does
Interrupt ==
    /\ pc \in GuardedPcs
    /\ Raise("interrupt")
    /\ alarmBusy' = FALSE
    /\ ElementsGone
    /\ UNCHANGED <<cfg, arg, res, locVars, loopVars, cycleMsgs, seenAtStart, cycleEmitted,
                   cycleAlarms, seedObserved, everRead, beepsDone, wavPlaying, wavResult,
                   exitVars>>

\* KeyboardInterrupt between build_driver and the try statement
InterruptBeforeTry ==
    /\ pc = "acquired"
    /\ pc' = "exited"
    /\ stopCause' = "interruptOutside"
    /\ raised' = TRUE
    /\ UNCHANGED <<cfg, arg, res, locVars, loopVars, cycleVars, seedObserved, everRead,
                   alarmVars, closeCount, closeFailed, lateInterrupt>>

\* main() has returned: its locals and the records of the cycle are gone
Gone ==
    /\ attempt' = 0
    /\ step' = "none"
    /\ locLog' = <<>>
    /\ chat' = 0
    /\ clicked' = 0
    /\ locTrace' = <<>>
    /\ seen_ids' = {}
    /\ new_items' = <<>>
    /\ idx' = 1
    /\ cycleMsgs' = <<>>
    /\ seenAtStart' = {}
    /\ cycleEmitted' = <<>>
    /\ cycleAlarms' = {}
    /\ ElementsGone
    /\ seedObserved' = {}
    /\ beepsDone' = 0
    /\ wavResult' = "none"

\* driver.quit() moved into `except Exception`: an interrupt skips it
MainExitNoQuit ==
    /\ pc = "handler"
    /\ closeCount' = IF stopCause = "interrupt" THEN closeCount ELSE closeCount + 1
    /\ UNCHANGED closeFailed
    /\ pc' = "exited"
    /\ Gone
    /\ UNCHANGED <<cfg, arg, res, locResult, locCalls, everRead, alarmBusy, wavPlaying,
                   stopCause, raised, lateInterrupt>>

\* the except clause that matched prints its line; finally: driver.quit()
\* inside try/except Exception: pass, so a failing quit raises nothing
MainExit ==
    /\ pc = "handler"
    /\ closeCount' = closeCount + 1
    /\ \E quitOk \in BOOLEAN : closeFailed' = ~quitOk
    /\ pc' = "exited"
    /\ Gone
    /\ UNCHANGED <<cfg, arg, res, locResult, locCalls, everRead, alarmBusy, wavPlaying,
                   stopCause, raised, lateInterrupt>>

\* KeyboardInterrupt in the except clause (finally still runs: quitCalled) or
\* in the finally clause, before (not quitCalled) or during driver.quit();
\* nothing catches it
InterruptLate ==
    /\ pc = "handler"
    /\ lateInterrupt' = TRUE
    /\ \E quitCalled \in BOOLEAN :
          closeCount' = closeCount + (IF quitCalled THEN 1 ELSE 0)
    /\ raised' = TRUE
    /\ UNCHANGED closeFailed
    /\ pc' = "exited"
    /\ Gone
    /\ UNCHANGED <<cfg, arg, res, locResult, locCalls, everRead, alarmBusy, wavPlaying,
                   stopCause>>

Next ==
    \/ EnterTry
    \/ WaitReady
    \/ LocSearch
    \/ LocType
    \/ LocLookup
    \/ LocClick
    \/ LocComposer
    \/ LocPause
    \/ Probe
    \/ Seed1
    \/ Seed2
    \/ Scroll
    \/ PollRead
    \/ ProcessItem
    \/ AlarmBeep
    \/ AlarmReturn
    \/ WavEnds
    \/ LoopDone
    \/ Sleep
    \/ Interrupt
    \/ InterruptBeforeTry
    \/ MainExit
    \/ InterruptLate

Spec == Init /\ [][Next]_vars

(***************************************************************************)
(* The functions applied on their own, to arguments drawn from bounded     *)
(* sets: normalize, keyword_hit, the id of get_messages, get_messages.     *)
(***************************************************************************)
StringsOver(alphabet, n) == UNION {[1..k -> alphabet] : k \in 0..n}

\* the arguments of normalize and of normalize(normalize(..))
NormalizeArgs ==
    [fn : {"normalize"}, s : StringsOver({"a", "A", DoubleStruckC, " ", "\t"}, MaxStr)]

\* the arguments of keyword_hit: a text and one or two keywords
KeywordHitArgs ==
    [fn : {"keyword_hit"},
     text : StringsOver({"a", "A", " "}, MaxText),
     kws : UNION {[1..n -> StringsOver({"a", "A", " "}, MaxKw)] : n \in 1..2}]

\* two elements whose facets may hold the separator; the text may be padded
ExtractArgs ==
    LET facets == StringsOver({"a", "|"}, MaxFacet)
        texts == facets \cup {f \o <<" ">> : f \in facets}
        blocks == [meta : facets, text : texts, ok : {TRUE}]
    IN  [fn : {"extract"}, b1 : blocks, b2 : blocks]

GetMessagesArgs == [fn : {"get_messages"}, blocks : Snapshots]

InitPure ==
    /\ arg \in NormalizeArgs \cup KeywordHitArgs \cup ExtractArgs \cup GetMessagesArgs
    /\ res = [fn |-> "none"]
    /\ cfg = [keywords |-> <<KwHi>>, alarm_beeps |-> 0, wav_path |-> FALSE]
    /\ pc = "pure"
    /\ attempt = 0
    /\ step = "none"
    /\ locLog = <<>>
    /\ locResult = "none"
    /\ locCalls = 0
    /\ chat = 0
    /\ clicked = 0
    /\ locTrace = <<>>
    /\ seen_ids = {}
    /\ new_items = <<>>
    /\ idx = 1
    /\ cycleMsgs = <<>>
    /\ seenAtStart = {}
    /\ cycleEmitted = <<>>
    /\ cycleAlarms = {}
    /\ scrollFail = FALSE
    /\ cycleBlocks = <<>>
    /\ failedEarlier = {}
    /\ seedObserved = {}
    /\ everRead = FALSE
    /\ beepsDone = 0
    /\ alarmBusy = FALSE
    /\ wavPlaying = FALSE
    /\ wavResult = "none"
    /\ stopCause = "none"
    /\ closeCount = 0
    /\ closeFailed = FALSE
    /\ raised = FALSE
    /\ lateInterrupt = FALSE

mainVars == <<cfg, pc, locVars, loopVars, cycleVars, seedObserved, everRead,
              alarmVars, stopCause, exitVars>>

\* normalize(s), and normalize of what it returned
ApplyNormalize ==
    /\ arg.fn = "normalize" /\ res.fn = "none"
    /\ res' = [fn |-> "normalize", once |-> normalize(arg.s),
               twice |-> normalize(normalize(arg.s))]
    /\ UNCHANGED <<arg, mainVars>>

ApplyKeywordHit ==
    /\ arg.fn = "keyword_hit" /\ res.fn = "none"
    /\ res' = [fn |-> "keyword_hit", out |-> keyword_hit(arg.text, arg.kws)]
    /\ UNCHANGED <<arg, mainVars>>

\* the body of get_messages' loop on each of two elements
ApplyExtract ==
    /\ arg.fn = "extract" /\ res.fn = "none"
    /\ res' = [fn |-> "extract", m1 |-> ExtractBlock(arg.b1), m2 |-> ExtractBlock(arg.b2)]
    /\ UNCHANGED <<arg, mainVars>>

ApplyGetMessages ==
    /\ arg.fn = "get_messages" /\ res.fn = "none"
    /\ res' = [fn |-> "get_messages", msgs |-> GetMessages(arg.blocks)]
    /\ UNCHANGED <<arg, mainVars>>

NextPure ==
    \/ ApplyNormalize
    \/ ApplyKeywordHit
    \/ ApplyExtract
    \/ ApplyGetMessages

SpecPure == InitPure /\ [][NextPure]_vars

(***************************************************************************)
(* The claims.                                                             *)
(***************************************************************************)
\* the messages the lines of this cycle were printed for
EmittedMsgs ==
    [k \in 1..Len(cycleEmitted) |->
        [id |-> cycleEmitted[k].id, sender |-> cycleEmitted[k].sender,
         text |-> cycleEmitted[k].text]]

\* C1: no message line is printed (and so no alarm sounded) for an id that is
\* already in seen_ids at the moment the message is processed, also when a
\* snapshot holds the same id at two positions; each id is emitted at most once.
C1_NeverReAlerts ==
    \A k \in 1..Len(cycleEmitted) : ~cycleEmitted[k].wasSeen

\* C2: an id returned by a get_messages call made after the conversation is
\* opened and before the first poll cycle is never emitted in a poll cycle.
C2_SeededNeverEmitted ==
    \A k \in 1..Len(cycleEmitted) : cycleEmitted[k].id \notin seedObserved

\* C3: from its creation until the loop exits every step keeps each id already
\* in seen_ids: nothing is removed and the set is never reset to empty.
C3_SeenOnlyGrows ==
    [][pc' # "exited" => seen_ids \subseteq seen_ids']_vars

\* C4: in polling, an error of the snapshot read raised while enumerating the
\* message elements, other than the fatal one of a destroyed session, never
\* terminates the loop.
C4_EnumErrorKeepsLooping ==
    stopCause # "pollEnumError"

\* C5: once the try statement is entered, every way main ends (readiness
\* timeout, locator failure, an error in seeding or polling, an interrupt
\* inside the try body) calls driver.quit() exactly once, as the last thing
\* before the exit, and a failing quit raises nothing.
C5_ClosedExactlyOnce ==
    /\ closeCount <= 1
    /\ pc # "exited" => closeCount = 0
    /\ (pc = "exited" /\ stopCause # "interruptOutside" /\ ~lateInterrupt)
          => (closeCount = 1 /\ ~raised)

\* C5 witness: an interrupt inside the try body, quit called once and failing,
\* main ended without an exception.
C5_Witness ==
    /\ pc = "exited"
    /\ stopCause = "interrupt"
    /\ closeFailed
    /\ closeCount = 1
    /\ ~raised

\* startup failed: the readiness wait timed out or the locator raised
StartupFailed == stopCause = "readyTimeout" \/ locResult = "fatal"

\* C6: after a failed startup main is in its except/finally clauses or has
\* exited; get_messages was never called, nothing was emitted, no alarm
\* started, and open_group_chat was called at most once.
C6_StartupFailureStops ==
    StartupFailed =>
        /\ pc \in {"handler", "exited"}
        /\ ~everRead
        /\ cycleEmitted = <<>>
        /\ cycleAlarms = {}
        /\ ~alarmBusy
        /\ ~wavPlaying
        /\ locCalls <= 1

\* C6 witness: the locator exhausted its attempts and main has exited.
C6_Witness ==
    /\ locResult = "fatal"
    /\ locCalls = 1
    /\ pc = "exited"
    /\ closeCount = 1

\* C7: open_group_chat makes at most 5 attempts; a failed step ends only its
\* attempt (attempt n runs after exactly n - 1 failures); it returns in the
\* first attempt that completes every step; it raises exactly when all 5
\* attempts failed (an interrupt ends the call without either outcome).
C7_LocatorRetries ==
    /\ attempt <= MaxAttempts
    /\ Len(locLog) <= MaxAttempts
    /\ pc = "locate" => (attempt \in 1..MaxAttempts /\ Len(locLog) = attempt - 1)
    /\ pc = "locPause" => Len(locLog) = attempt
    /\ (pc = "probe" /\ locResult = "ok")
          => (step = "done" /\ Len(locLog) = attempt - 1)
    /\ (pc = "handler" /\ locResult = "fatal") => Len(locLog) = MaxAttempts
    /\ (Len(locLog) = MaxAttempts /\ pc # "locPause" /\ stopCause # "interrupt")
          => locResult = "fatal"
    /\ locResult = "ok" => stopCause # "locator"

\* C7 witness: attempt 1 ended in the stale-element clause, attempt 2 succeeded.
C7_Witness ==
    /\ pc = "probe"
    /\ locResult = "ok"
    /\ attempt = 2
    /\ locLog = <<"stale">>

\* the Delta: the messages of a snapshot whose id is not in seen, in order
RECURSIVE DeltaOf(_, _)
DeltaOf(msgs, seen) ==
    IF msgs = <<>> THEN <<>>
    ELSE (IF Head(msgs).id \notin seen THEN <<Head(msgs)>> ELSE <<>>)
             \o DeltaOf(Tail(msgs), seen)

\* C8: the lines of a poll cycle are, in order, a prefix of the Delta of the
\* cycle's snapshot against seen_ids at the start of the cycle, and the whole
\* Delta once the cycle reaches its sleep (so nothing when all ids are seen).
C8_EmitsExactlyDelta ==
    LET d == DeltaOf(cycleMsgs, seenAtStart)
    IN  /\ Len(EmittedMsgs) <= Len(d)
        /\ EmittedMsgs = SubSeq(d, 1, Len(EmittedMsgs))
        /\ pc = "sleep" => EmittedMsgs = d

\* C8 witness: a completed cycle whose snapshot held a seen and a new message.
C8_Witness ==
    /\ pc = "sleep"
    /\ Len(cycleEmitted) >= 1
    /\ Len(cycleMsgs) > Len(cycleEmitted)
    /\ seenAtStart # {}

\* the matcher reports a match: keyword_hit does not return None
Matched(text, kws) == keyword_hit(text, kws).hit

\* C9: for every emitted message and every keyword list, play_alarm is called
\* for the message exactly when some keyword's normalized form is a substring
\* of the normalized text.
C9_AlarmIffMatch ==
    \A k \in 1..Len(cycleEmitted) :
        (k \in cycleAlarms) <=> Matched(cycleEmitted[k].text, cfg.keywords)

\* C10: alarm delivery never overlaps anything: a sound of the alarm (a
\* play_alarm call, or the sound file it started) is in progress only while
\* the loop is inside that call.
C10_AlarmNeverOverlaps ==
    (alarmBusy \/ wavPlaying) => pc = "alarm"

\* C10, amended: the play_alarm call and its beeps are synchronous: the call
\* starts after the line of its message, the loop stays in it (no further
\* message, sleep or read), and it returns with all its beeps sounded; the
\* sound file is only started by the call.
C10_BeepsSynchronous ==
    /\ alarmBusy =>
          /\ pc = "alarm"
          /\ Len(cycleEmitted) = idx
          /\ idx \in cycleAlarms
          /\ beepsDone <= cfg.alarm_beeps
    /\ pc = "alarm" => alarmBusy
    /\ (pc \in {"process", "sleep", "scroll", "read"} /\ cycleAlarms # {})
          => beepsDone = cfg.alarm_beeps

\* C10 witness: an alarm has sounded all its beeps and returned, and the next
\* new message of the cycle is about to be processed.
C10_Witness ==
    /\ pc = "process"
    /\ cycleAlarms # {}
    /\ ~alarmBusy
    /\ cfg.alarm_beeps > 0
    /\ beepsDone = cfg.alarm_beeps
    /\ idx <= Len(new_items)

(***************************************************************************)
(* C11.  keyword_hit returns the first keyword, in the configured order,   *)
(* whose normalized form is a substring of the normalized text, and        *)
(* returns it as it was configured; it returns None exactly when no        *)
(* keyword qualifies, and never a later keyword when an earlier qualifies. *)
(***************************************************************************)
Qualifies(kw, text) == In(normalize(kw), normalize(text))

\* C11: the result is the first qualifying keyword in its original form, None iff none qualifies
C11_FirstKeywordOriginalForm ==
    res.fn = "keyword_hit" =>
        LET kws == arg.kws
            q == {i \in 1..Len(kws) : Qualifies(kws[i], arg.text)}
        IN  /\ (~res.out.hit) <=> (q = {})
            /\ res.out.hit =>
                 \E i \in q : /\ \A j \in 1..(i - 1) : j \notin q
                              /\ res.out.kw = kws[i]

\* two keywords qualify, they differ, and the first is not in normalized form
C11_Witness ==
    /\ res.fn = "keyword_hit"
    /\ Len(arg.kws) = 2
    /\ Qualifies(arg.kws[1], arg.text) /\ Qualifies(arg.kws[2], arg.text)
    /\ arg.kws[1] # arg.kws[2]
    /\ normalize(arg.kws[1]) \notin {<<>>, arg.kws[1]}
    /\ res.out = Some(arg.kws[1])

(***************************************************************************)
(* C12.  normalize is idempotent; its result has no leading or trailing    *)
(* whitespace, no run of two or more whitespace characters and no          *)
(* upper-case letter.                                                      *)
(***************************************************************************)
NoOuterSpace(s) == s # <<>> => ~IsSpace(s[1]) /\ ~IsSpace(s[Len(s)])

NoSpaceRun(s) == \A i \in 1..(Len(s) - 1) : ~(IsSpace(s[i]) /\ IsSpace(s[i + 1]))

\* C12 as stated: idempotent, trimmed, single-spaced, and no upper-case letter at all
C12_NoUpperCaseLetter ==
    res.fn = "normalize" =>
        /\ res.twice = res.once
        /\ NoOuterSpace(res.once)
        /\ NoSpaceRun(res.once)
        /\ \A i \in 1..Len(res.once) : ~IsUpper(res.once[i])

\* C12 amended: idempotent, trimmed, single-spaced, and no letter that str.lower() changes
C12_NormalFormOfLower ==
    res.fn = "normalize" =>
        /\ res.twice = res.once
        /\ NoOuterSpace(res.once)
        /\ NoSpaceRun(res.once)
        /\ Lower(res.once) = res.once

\* an upper-case letter, a run of two whitespace characters, a letter: "a a"
C12_Witness ==
    /\ res.fn = "normalize"
    /\ Len(arg.s) = 4
    /\ arg.s[1] = "A"
    /\ IsSpace(arg.s[2]) /\ arg.s[3] = "\t"
    /\ res.once = <<"a", " ", "a">>
    /\ res.twice = res.once

(***************************************************************************)
(* C13.  The id of a message identifies the pair of its trimmed metadata   *)
(* and trimmed text: the same pair gives the same id, and two different    *)
(* pairs never give the same id.                                           *)
(***************************************************************************)
FacetsOf(b) == <<Strip(b.meta), Strip(b.text)>>

\* C13: two returned elements have the same id exactly when their trimmed (metadata, text) pairs are the same
C13_IdIdentifiesPair ==
    (res.fn = "extract" /\ res.m1 # <<>> /\ res.m2 # <<>>) =>
        ((res.m1[1].id = res.m2[1].id) <=> (FacetsOf(arg.b1) = FacetsOf(arg.b2)))

(***************************************************************************)
(* C16.  A failed read of one element skips that element only: every other *)
(* enumerated element with non-empty text is returned, in document order;  *)
(* the read itself does not fail; no element gives the empty sequence.     *)
(***************************************************************************)
Skipped(b) == ~b.ok \/ Strip(b.text) = <<>>

Kept(blocks) == SelectSeq(blocks, LAMBDA b : ~Skipped(b))

\* C16: get_messages returns, in document order, exactly the elements read without failure whose text is not blank
C16_SkipsOnlyFailedElement ==
    res.fn = "get_messages" =>
        LET kept == Kept(arg.blocks)
        IN  /\ Len(res.msgs) = Len(kept)
            /\ \A i \in 1..Len(kept) :
                   /\ res.msgs[i].text = Strip(kept[i].text)
                   /\ res.msgs[i].id = MsgId(Strip(kept[i].meta), Strip(kept[i].text))
            /\ (arg.blocks = <<>> => res.msgs = <<>>)

\* an element whose read failed, followed by one that is returned
C16_Witness ==
    /\ res.fn = "get_messages"
    /\ Len(arg.blocks) = 2
    /\ ~arg.blocks[1].ok
    /\ ~Skipped(arg.blocks[2])
    /\ Len(res.msgs) = 1
    /\ res.msgs[1].text = Strip(arg.blocks[2].text)

(***************************************************************************)
(* C14.  Without a fatal error and without an interrupt the loop never     *)
(* stops: every completed cycle is followed by the sleep and another       *)
(* cycle, so the snapshot is read again and again.                         *)
(***************************************************************************)
\* what the polling loop is allowed to stop for: the session lost, or an interrupt
LoopStopCauses == {"pollEnumFatal", "interrupt", "interruptOutside"}

\* what stops main before the loop is entered
StartupStopCauses == {"readyTimeout", "locator", "probe", "seedRead"}

\* C14: main stops, once polling, only for a fatal error or an interrupt
C14_LoopStopsOnlyFatalOrInterrupt ==
    stopCause \in {"none"} \cup StartupStopCauses \cup LoopStopCauses

(***************************************************************************)
(* C15.  Within every attempt of open_group_chat the steps come in the     *)
(* order search field, clear and type, lookup, click, composer; the handle *)
(* clicked is one obtained in the same attempt, after the name was typed;  *)
(* the function returns only after the composer was seen after the click.  *)
(***************************************************************************)
LocOrder == <<"search", "type", "lookup", "click", "composer">>

\* C15: an attempt's steps are a prefix of the fixed order, the handle clicked was looked up in this attempt, success follows the composer
C15_AttemptStepsInOrder ==
    /\ Len(locTrace) <= Len(LocOrder)
    /\ locTrace = SubSeq(LocOrder, 1, Len(locTrace))
    /\ clicked # 0 =>
          /\ clicked = attempt
          /\ Len(locTrace) >= 4
    /\ (locResult = "ok" /\ pc = "probe") =>
          /\ locTrace = LocOrder
          /\ clicked = attempt

\* the second attempt succeeds, with a handle of its own, after the first bound one too
C15_Witness ==
    /\ pc = "probe"
    /\ locResult = "ok"
    /\ attempt = 2
    /\ locLog = <<"other">>
    /\ clicked = 2
    /\ locTrace = LocOrder

(***************************************************************************)
(* C17.  A failure of the scroll hint, at whichever of its steps, never    *)
(* aborts the cycle: the read, the delta and the sleep of the same cycle   *)
(* still take place, and the hint leaves SeenSet as it was.                *)
(***************************************************************************)
\* C17: from the scroll hint main goes on to get_messages, whatever failed in the hint, with seen_ids unchanged; only an interrupt leaves the cycle there
C17_HintFailureKeepsCycle ==
    [][pc = "scroll" =>
          /\ seen_ids' = seen_ids
          /\ \/ pc' = "read" /\ stopCause' = "none"
             \/ pc' = "scroll"
             \/ stopCause' = "interrupt"]_vars

\* the hint failed, after a cycle in which an element's read failed, and the read is next
C17_Witness ==
    /\ pc = "read"
    /\ scrollFail
    /\ stopCause = "none"
    /\ seen_ids # {}
    /\ failedEarlier # {}

(***************************************************************************)
(* C18.  One call of play_alarm sounds exactly alarm_beeps beeps (none for *)
(* 0), all of them before the sound file is tried; a failure to play the   *)
(* file is not fatal: the call returns and the loop goes on.               *)
(***************************************************************************)
\* play_alarm for the message before position idx has returned
AlarmReturned ==
    /\ pc = "process"
    /\ (idx - 1) \in cycleAlarms
    /\ stopCause = "none"

\* C18: while beeps remain the file is not tried; a call that returned sounded exactly alarm_beeps beeps and tried the file iff one is configured; after a failed file the loop goes on
C18_BeepsThenFileNotFatal ==
    /\ pc = "alarm" => (wavResult = "none" /\ beepsDone <= cfg.alarm_beeps)
    /\ wavResult # "none" => (cfg.wav_path /\ beepsDone = cfg.alarm_beeps)
    /\ AlarmReturned =>
          /\ beepsDone = cfg.alarm_beeps
          /\ ~alarmBusy
          /\ (wavResult # "none") <=> cfg.wav_path
    /\ wavResult = "failed" =>
          \/ pc = "process" /\ stopCause = "none"
          \/ stopCause = "interrupt"

\* the file failed to play after all the beeps, and another new message is waiting
C18_Witness ==
    /\ AlarmReturned
    /\ wavResult = "failed"
    /\ cfg.alarm_beeps = MaxBeeps
    /\ beepsDone = MaxBeeps
    /\ idx <= Len(new_items)

(***************************************************************************)
(* C19.  An interrupt arriving at any point after the session is acquired  *)
(* is never consumed by the local retry and skip handlers: there is no     *)
(* further locator attempt, read, emission or alarm after it, and the      *)
(* session stops through main's top-level handler.                         *)
(***************************************************************************)
\* a KeyboardInterrupt arrives in this step
InterruptArrives ==
    \/ stopCause = "none" /\ stopCause' \in {"interrupt", "interruptOutside"}
    \/ ~lateInterrupt /\ lateInterrupt'

\* nothing of the locator, the reads, the message lines or the alarm happens in this step
NothingFurther ==
    /\ locCalls' = locCalls
    /\ attempt' \in {attempt, 0}
    /\ Len(locLog') <= Len(locLog)
    /\ everRead' = everRead
    /\ seen_ids' \subseteq seen_ids
    /\ Len(cycleEmitted') <= Len(cycleEmitted)
    /\ cycleAlarms' \subseteq cycleAlarms
    /\ beepsDone' \in {beepsDone, 0}
    /\ ~alarmBusy'
    /\ wavResult' \in {wavResult, "none"}

KeptIds(blocks) ==
    {MsgId(Strip(blocks[i].meta), Strip(blocks[i].text)) :
        i \in {j \in 1..Len(blocks) : ~Skipped(blocks[j])}}

\* C20: seeding puts exactly the ids of the elements not skipped into seen_ids; a cycle adds and emits only ids of elements not skipped, and by its sleep has emitted every such element whose id was not seen
C20_SkippedLeavesNoTrace ==
    LET keptIds == KeptIds(cycleBlocks)
    IN  /\ pc = "seed2" => seen_ids = keptIds
        /\ (pc \in {"scroll", "read"} /\ cycleBlocks # <<>>) => seen_ids = keptIds
        /\ pc \in {"process", "alarm", "sleep"} =>
              /\ seen_ids \subseteq (seenAtStart \cup keptIds)
              /\ \A j \in 1..Len(cycleEmitted) : cycleEmitted[j].id \in keptIds
              /\ Len(cycleEmitted) <= Len(Kept(cycleBlocks))
        /\ pc = "sleep" =>
              \A id \in keptIds \ seenAtStart :
                  \E j \in 1..Len(cycleEmitted) : cycleEmitted[j].id = id

\* an element whose read failed in an earlier call, and so was not seen, is read and emitted in this cycle, next to one that is skipped
C20_Witness ==
    /\ pc = "sleep"
    /\ \E j \in 1..Len(cycleEmitted) :
          /\ cycleEmitted[j].id \in failedEarlier
          /\ cycleEmitted[j].id \notin seenAtStart
    /\ \E i \in 1..Len(cycleBlocks) : Skipped(cycleBlocks[i])

=============================================================================
